---- MODULE Spec2Model ----
(***************************************************************************)
(* A model of the backtester package: the Broker ledger (broker.py), the   *)
(* Backtester.run loop (engine.py) that drives it, and the signals of      *)
(* VolatilityBreakoutStrategy (strategy.py).                               *)
(*                                                                         *)
(* Numbers.  Prices, cash and quantities are integers (whole price units). *)
(* An exposure is an integer count of 1/Unit parts, so Unit stands for the *)
(* exposure 1.0 and 1 for the smallest fraction above 0.  A value of the   *)
(* series a strategy returns is Num(v) or the missing value NaN.           *)
(***************************************************************************)
EXTENDS Integers, Sequences, FiniteSets, TLC

\* ---------------------------------------------------------------- bounds
MaxLen == 3
MaxPrice == 3
MaxQty == 2
MaxCash == 7
MaxOrders == 2
Unit == 2
MaxBars == 6

\* ---------------------------------------------------------------- values
NaN == [nan |-> TRUE, v |-> 0]
Num(x) == [nan |-> FALSE, v |-> x]

\* order sides, as the characters of the string passed to market_order
buy == <<"b", "u", "y">>
sell == <<"s", "e", "l", "l">>
Sides ==
  { buy, <<"B", "U", "Y">>, sell, <<"S", "e", "l", "l">>,
    <<"h", "o", "l", "d">> }

PriceValues == { -1, 0, 1, MaxPrice }
OrderPrices == { -1, 0, 1, MaxPrice }
QtyValues == { -1, 0, 1, MaxQty }
ValuePrices == { 0, 1, MaxPrice }
CashValues == { -MaxCash, 1, MaxCash }
\* what a strategy may hand back: missing, negative, zero, a fraction,
\* exactly one, above one
SignalValues == { NaN } \cup { Num(x) : x \in { -Unit, 0, 1, Unit, 2 * Unit } }

SeqsUpTo(S, n) == UNION { [1 .. k -> S] : k \in 0 .. n }
Range(s) == { s[i] : i \in DOMAIN s }
\* a strategy value that is missing or outside [0, 1]
Abnormal(x) == x.nan \/ x.v < 0 \/ x.v > Unit

\* ---------------------------------------------------------------- state
VARIABLES
  cash,        \* Broker.cash
  position,    \* Broker.position
  trade_log,   \* Broker.trade_log
  pc,          \* where Backtester.run is: idle, running, done, failed
  prices,      \* run's argument, the price of each observation in order
  sig,         \* run's local sig after fillna and clip
  prev_sig,    \* run's local prev_sig
  equity,      \* run's local equity, a list of (dt, value)
  t,           \* number of observations the loop has consumed
  result,      \* what run returned, or "none"
  error,       \* the exception that left the last call, or "none"
  calls,       \* number of calls the caller has made on the ledger itself
  cash0,       \* the cash the ledger was created with
  strategy,    \* Backtester.strategy, once the Backtester is built
  other,       \* a second Backtester with a Broker of its own, if there is one
  last         \* the last call made, its inputs and the ledger before it

vars ==
  << cash, position, trade_log, pc, prices, sig, prev_sig, equity, t,
     result, error, calls, cash0, strategy, other, last >>

\* ---------------------------------------------------------------- broker
LowerChar(c) ==
  CASE c = "B" -> "b"
    [] c = "U" -> "u"
    [] c = "Y" -> "y"
    [] c = "S" -> "s"
    [] c = "E" -> "e"
    [] c = "L" -> "l"
    [] OTHER -> c

\* a comparison of side without lower()
Lower_identity(s) == s

Lower(s) == [i \in DOMAIN s |-> LowerChar(s[i])]

Broker(c) == [cash |-> c, position |-> 0, trade_log |-> <<>>]

TradeRecord(b, side, qty, price) ==
  [side |-> side, qty |-> qty, price |-> price,
   cash |-> b.cash, position |-> b.position]

\* a sell that credits the cash and keeps the position
ApplySide_sell_keeps_position(b, side, qty, price) ==
  IF Lower(side) = buy
    THEN [b EXCEPT !.cash = @ - qty * price, !.position = @ + qty]
    ELSE IF Lower(side) = sell
      THEN [b EXCEPT !.cash = @ + qty * price]
      ELSE b

\* a buy that costs one more than qty * price
ApplySide_fee(b, side, qty, price) ==
  IF Lower(side) = buy
    THEN [b EXCEPT !.cash = @ - qty * price - 1, !.position = @ + qty]
    ELSE IF Lower(side) = sell
      THEN [b EXCEPT !.cash = @ + qty * price, !.position = @ - qty]
      ELSE b

\* a sell that debits the cash like a buy
ApplySide_sell_debits(b, side, qty, price) ==
  IF Lower(side) = buy
    THEN [b EXCEPT !.cash = @ - qty * price, !.position = @ + qty]
    ELSE IF Lower(side) = sell
      THEN [b EXCEPT !.cash = @ - qty * price, !.position = @ - qty]
      ELSE b

ApplySide(b, side, qty, price) ==
  IF Lower(side) = buy
    THEN [b EXCEPT !.cash = @ - qty * price, !.position = @ + qty]
    ELSE IF Lower(side) = sell
      THEN [b EXCEPT !.cash = @ + qty * price, !.position = @ - qty]
      ELSE b

\* the price check written as price < 0
market_order_zero_price(b, side, qty, price) ==
  IF qty <= 0
    THEN [raised |-> "ValueError", b |-> b]
    ELSE IF price < 0
      THEN [raised |-> "ValueError", b |-> b]
      ELSE LET b1 == ApplySide(b, side, qty, price)
           IN [raised |-> "none",
               b |-> [b1 EXCEPT !.trade_log =
                        Append(@, TradeRecord(b1, side, qty, price))]]

\* the record inserted at the head of the log
market_order_prepend(b, side, qty, price) ==
  IF qty <= 0
    THEN [raised |-> "ValueError", b |-> b]
    ELSE IF price <= 0
      THEN [raised |-> "ValueError", b |-> b]
      ELSE LET b1 == ApplySide(b, side, qty, price)
           IN [raised |-> "none",
               b |-> [b1 EXCEPT !.trade_log =
                        <<TradeRecord(b1, side, qty, price)>> \o @]]

\* a buy refused when the cash does not cover it
market_order_margin(b, side, qty, price) ==
  IF qty <= 0
    THEN [raised |-> "ValueError", b |-> b]
    ELSE IF price <= 0 \/ (Lower(side) = buy /\ b.cash < qty * price)
      THEN [raised |-> "ValueError", b |-> b]
      ELSE LET b1 == ApplySide(b, side, qty, price)
           IN [raised |-> "none",
               b |-> [b1 EXCEPT !.trade_log =
                        Append(@, TradeRecord(b1, side, qty, price))]]

market_order(b, side, qty, price) ==
  IF qty <= 0
    THEN [raised |-> "ValueError", b |-> b]
    ELSE IF price <= 0
      THEN [raised |-> "ValueError", b |-> b]
      ELSE LET b1 == ApplySide(b, side, qty, price)
           IN [raised |-> "none",
               b |-> [b1 EXCEPT !.trade_log =
                        Append(@, TradeRecord(b1, side, qty, price))]]

\* a short position valued at nothing
total_value_long_only(b, current_price) ==
  b.cash + (IF b.position > 0 THEN b.position ELSE 0) * current_price

total_value(b, current_price) == b.cash + b.position * current_price

\* ---------------------------------------------------------------- engine
FillNa(x) == IF x.nan THEN 0 ELSE x.v

\* clip(upper=1) alone
Clip_no_lower(x) == IF x > Unit THEN Unit ELSE x

Clip(x) == IF x < 0 THEN 0 ELSE IF x > Unit THEN Unit ELSE x

Normalize(s) == [i \in DOMAIN s |-> Clip(FillNa(s[i]))]

\* the quotient rounded up
CeilDiv(a, b) == IF b > 0 THEN -((-a) \div b) ELSE -(a \div (-b))

\* Python's a // b for b # 0: the floor of the quotient
FloorDiv(a, b) == IF b > 0 THEN a \div b ELSE (-a) \div (-b)

Order(side, qty, price) == [side |-> side, qty |-> qty, price |-> price]

\* what one iteration did before the equity append: the orders it sent to
\* the broker, the broker after them, the exception raised and who raised it
Outcome_swallow(r, side, qty, px) ==
  [raised |-> "none", by |-> "none", b |-> r.b,
   sent |-> <<Order(side, qty, px)>>]

Outcome(r, side, qty, px) ==
  [raised |-> r.raised, by |-> IF r.raised = "none" THEN "none" ELSE "broker",
   b |-> r.b, sent |-> <<Order(side, qty, px)>>]

NoOrder(b) == [raised |-> "none", by |-> "none", b |-> b, sent |-> <<>>]

\* the quantity test written as qty >= 0
Entry_buy_zero(b, px) ==
  IF px = 0
    THEN [raised |-> "ZeroDivisionError", by |-> "engine", b |-> b,
          sent |-> <<>>]
    ELSE LET qty == FloorDiv(b.cash, px)
         IN IF qty >= 0
              THEN Outcome(market_order(b, buy, qty, px), buy, qty, px)
              ELSE NoOrder(b)

\* prev_sig <= 0 and cur_sig > 0: buy what the cash pays for
Entry(b, px) ==
  IF px = 0
    THEN [raised |-> "ZeroDivisionError", by |-> "engine", b |-> b,
          sent |-> <<>>]
    ELSE LET qty == FloorDiv(b.cash, px)
         IN IF qty > 0
              THEN Outcome(market_order(b, buy, qty, px), buy, qty, px)
              ELSE NoOrder(b)

\* one unit more than the position sold
Exit_oversell(b, px) ==
  LET pos == b.position
  IN IF pos > 0
       THEN Outcome(market_order(b, sell, pos + 1, px), sell, pos + 1, px)
       ELSE NoOrder(b)

\* the position sold without the test pos > 0
Exit_unguarded(b, px) ==
  LET pos == b.position
  IN Outcome(market_order(b, sell, pos, px), sell, pos, px)

\* one unit sold instead of the position
Exit_one_share(b, px) ==
  LET pos == b.position
  IN IF pos > 0
       THEN Outcome(market_order(b, sell, 1, px), sell, 1, px)
       ELSE NoOrder(b)

\* prev_sig > 0 and cur_sig <= 0: sell the whole position
Exit(b, px) ==
  LET pos == b.position
  IN IF pos > 0
       THEN Outcome(market_order(b, sell, pos, px), sell, pos, px)
       ELSE NoOrder(b)

\* an entry at every step whose exposure is positive
Transition_rebalance(b, prev, cur, px) ==
  IF cur > 0
    THEN Entry(b, px)
    ELSE IF prev > 0 THEN Exit(b, px) ELSE NoOrder(b)

Transition(b, prev, cur, px) ==
  IF prev <= 0 /\ cur > 0
    THEN Entry(b, px)
    ELSE IF prev > 0 /\ cur <= 0
      THEN Exit(b, px)
      ELSE NoOrder(b)

\* prev_sig before the loop, as if the run began invested
InitialPrevSig_invested == Unit

InitialPrevSig == 0

\* run's equity list before the loop, seeded with the account value
NewEquity_seeded == <<[dt |-> 0, value |-> cash]>>

NewEquity == <<>>

\* the point valued at the cash alone
EquityPoint_cash(dt, b, px) == [dt |-> dt, value |-> b.cash]

EquityPoint(dt, b, px) == [dt |-> dt, value |-> total_value(b, px)]

\* a point recorded only while a position is held
RecordEquity_invested(eq, dt, b, px) ==
  IF b.position = 0 THEN eq ELSE Append(eq, EquityPoint(dt, b, px))

RecordEquity(eq, dt, b, px) == Append(eq, EquityPoint(dt, b, px))

\* ---------------------------------------------------------------- actions
\* -------------------------------------------------------------- strategy
\* Prices given to the breakout strategy are positive.  Its k is kept in
\* halves, k2 = 2 * k, and the returns and their variance as exact
\* fractions, so a comparison with a band is decided on integers.
BarValues == { 1, MaxPrice }
NoStrategy == [kind |-> "none"]
\* a strategy object that returns whatever series it was told to
MockStrategy == [kind |-> "mock"]

VolatilityBreakoutStrategy(lookback, k2, hold, lag_signal, long_only) ==
  [raised |-> "none",
   self |-> [kind |-> "breakout", lookback |-> lookback, k2 |-> k2,
             hold |-> hold, lag_signal |-> lag_signal,
             long_only |-> long_only]]

\* the configurations a caller builds: the default k = 1.5 and k = 0 with a
\* lookback of 2, a lookback of 1, and one configuration for each negative
\* parameter
Configs ==
  [lookback : {2}, k2 : {0, 3}, hold : BOOLEAN, lag_signal : {0, 1, 2},
   long_only : BOOLEAN]
  \cup { [lookback |-> 1, k2 |-> 0, hold |-> TRUE, lag_signal |-> 0,
          long_only |-> FALSE],
         [lookback |-> -1, k2 |-> 3, hold |-> TRUE, lag_signal |-> 1,
          long_only |-> TRUE],
         [lookback |-> 2, k2 |-> -1, hold |-> TRUE, lag_signal |-> 1,
          long_only |-> FALSE],
         [lookback |-> 2, k2 |-> 0, hold |-> TRUE, lag_signal |-> -1,
          long_only |-> TRUE] }

RECURSIVE Prod(_, _, _), Sum(_, _, _)
Prod(f, a, b) == IF a > b THEN 1 ELSE f[a] * Prod(f, a + 1, b)
Sum(f, a, b) == IF a > b THEN 0 ELSE f[a] + Sum(f, a + 1, b)

\* prices.pct_change() at position j >= 2 is RetNum / RetDen
RetNum(p, j) == p[j] - p[j - 1]
RetDen(p, j) == p[j - 1]

\* rets.rolling(lookback, min_periods=lookback).std().shift(1) at position
\* j is the sample deviation of the lookback returns before j: it needs
\* them all, the first return is at position 2, and one return has no
\* sample deviation
VolDefined(j, lookback) == lookback >= 2 /\ j - lookback >= 2

\* the variance under vol at j is VarNum / VarDen
WindowDen(p, j, lookback) ==
  Prod([i \in j - lookback .. j - 1 |-> RetDen(p, i)], j - lookback, j - 1)
Scaled(p, j, lookback) ==
  [i \in j - lookback .. j - 1 |->
     RetNum(p, i) * (WindowDen(p, j, lookback) \div RetDen(p, i))]
VarNum(p, j, lookback) ==
  LET a == Scaled(p, j, lookback)
      sq == [i \in DOMAIN a |-> a[i] * a[i]]
      total == Sum(a, j - lookback, j - 1)
  IN lookback * Sum(sq, j - lookback, j - 1) - total * total
VarDen(p, j, lookback) ==
  WindowDen(p, j, lookback) * WindowDen(p, j, lookback)
    * lookback * (lookback - 1)

\* a comparison that also holds on the band
Exceeds_or_equal(rn, rd, k2, vn, vd) ==
  IF k2 >= 0
    THEN rn >= 0 /\ 4 * rn * rn * vd >= k2 * k2 * vn * rd * rd
    ELSE IF rn >= 0
      THEN TRUE
      ELSE 4 * rn * rn * vd <= k2 * k2 * vn * rd * rd

\* rn / rd > (k2 / 2) * sqrt(vn / vd), for rd > 0 and vd > 0
Exceeds(rn, rd, k2, vn, vd) ==
  IF k2 >= 0
    THEN rn > 0 /\ 4 * rn * rn * vd > k2 * k2 * vn * rd * rd
    ELSE IF rn >= 0
      THEN rn > 0 \/ vn > 0
      ELSE 4 * rn * rn * vd < k2 * k2 * vn * rd * rd

\* the upper band with a missing vol taken as 0
AboveUp_vol_filled(self, p, j) ==
  /\ j >= 2
  /\ IF VolDefined(j, self.lookback)
       THEN Exceeds(RetNum(p, j), RetDen(p, j), self.k2,
                    VarNum(p, j, self.lookback), VarDen(p, j, self.lookback))
       ELSE RetNum(p, j) > 0

\* prices > prev_close * (1 + k * vol) at position j
AboveUp(self, p, j) ==
  /\ j >= 2
  /\ VolDefined(j, self.lookback)
  /\ Exceeds(RetNum(p, j), RetDen(p, j), self.k2,
             VarNum(p, j, self.lookback), VarDen(p, j, self.lookback))

\* prices < prev_close * (1 - k * vol) at position j
BelowDn(self, p, j) ==
  /\ j >= 2
  /\ VolDefined(j, self.lookback)
  /\ Exceeds(-RetNum(p, j), RetDen(p, j), self.k2,
             VarNum(p, j, self.lookback), VarDen(p, j, self.lookback))

\* raw with the lower band applied whatever long_only is
Raw_short(self, p) ==
  [j \in DOMAIN p |->
     IF BelowDn(self, p, j)
       THEN -1
       ELSE IF AboveUp(self, p, j) THEN 1 ELSE 0]

\* raw: 0, then 1 above the upper band, then -1 below the lower band unless
\* long_only
Raw(self, p) ==
  [j \in DOMAIN p |->
     IF ~self.long_only /\ BelowDn(self, p, j)
       THEN -1
       ELSE IF AboveUp(self, p, j) THEN 1 ELSE 0]

\* no carry forward: a raw 0 resets the series
Ffill_reset(raw, j) == IF j = 0 THEN 0 ELSE raw[j]

\* raw.replace(0, nan).ffill().fillna(0.0)
RECURSIVE Ffill(_, _)
Ffill(raw, j) ==
  IF j = 0 THEN 0 ELSE IF raw[j] # 0 THEN raw[j] ELSE Ffill(raw, j - 1)

Held(self, raw) ==
  IF self.hold THEN [j \in DOMAIN raw |-> Ffill(raw, j)] ELSE raw

\* fillna(0.0) of one value of the series
Fill0(x) == IF x.nan THEN Num(0) ELSE x

\* a shift by one position whatever n is
Shift_by_one(s, n) ==
  [j \in DOMAIN s |-> IF j <= 1 THEN Num(0) ELSE s[j - 1]]

\* the shift without the fillna
Shift_no_fill(s, n) == [j \in DOMAIN s |-> IF j <= n THEN NaN ELSE s[j - n]]

\* sig.shift(n).fillna(0.0): the first n positions are missing, then filled
Shift(s, n) ==
  [j \in DOMAIN s |-> Fill0(IF j <= n THEN NaN ELSE s[j - n])]

Lagged(self, s) == IF self.lag_signal > 0 THEN Shift(s, self.lag_signal) ELSE s

\* VolatilityBreakoutStrategy.signals(prices): rolling() refuses a negative
\* window; the values of the series are -1.0, 0.0 and 1.0
signals(self, p) ==
  IF self.lookback < 0
    THEN [raised |-> "ValueError", out |-> <<>>]
    ELSE LET s == Held(self, Raw(self, p))
         IN [raised |-> "none",
             out |-> Lagged(self, [j \in DOMAIN p |-> Num(s[j] * Unit)])]

TheBroker == [cash |-> cash, position |-> position, trade_log |-> trade_log]

NoCall == [op |-> "none"]
NoOther == [pc |-> "absent"]

Init ==
  /\ cash0 \in CashValues
  /\ cash = Broker(cash0).cash
  /\ position = Broker(cash0).position
  /\ trade_log = Broker(cash0).trade_log
  /\ pc = "idle"
  /\ prices = <<>>
  /\ sig = <<>>
  /\ prev_sig = 0
  /\ equity = <<>>
  /\ t = 0
  /\ result = "none"
  /\ error = "none"
  /\ calls = 0
  /\ strategy = NoStrategy
  /\ other = NoOther
  /\ last = NoCall

\* a caller's own Broker.market_order(side, qty, price)
MarketOrder ==
  /\ pc = "idle"
  /\ calls < MaxOrders
  /\ calls' = calls + 1
  /\ \E side \in Sides, qty \in QtyValues, price \in OrderPrices :
       LET r == market_order(TheBroker, side, qty, price)
       IN /\ cash' = r.b.cash
          /\ position' = r.b.position
          /\ trade_log' = r.b.trade_log
          /\ error' = r.raised
          /\ last' = [op |-> "market_order", side |-> side, qty |-> qty,
                      price |-> price, before |-> TheBroker]
  /\ UNCHANGED << pc, prices, sig, prev_sig, equity, t, result, cash0,
                  strategy, other >>

\* a caller's own Broker.total_value(current_price)
TotalValue ==
  /\ pc = "idle"
  /\ calls < MaxOrders
  /\ calls' = calls + 1
  /\ \E current_price \in ValuePrices :
       last' = [op |-> "total_value", price |-> current_price,
                value |-> total_value(TheBroker, current_price),
                before |-> TheBroker]
  /\ error' = "none"
  /\ UNCHANGED << cash, position, trade_log, pc, prices, sig, prev_sig,
                  equity, t, result, cash0, strategy, other >>

\* Backtester.run(prices) up to the loop: the strategy's signals, fillna,
\* clip, prev_sig = 0.0, equity = [].  A run is given a ledger created for
\* it with its initial cash: no call has been made on it.
StartRun ==
  /\ pc = "idle"
  /\ last = NoCall
  /\ \E p \in SeqsUpTo(PriceValues, MaxLen) :
       \E s \in [DOMAIN p -> SignalValues] :
         /\ prices' = p
         /\ sig' = Normalize(s)
         /\ last' = [op |-> "run", before |-> TheBroker,
                     emitted |-> { x \in Range(s) : Abnormal(x) }]
  /\ strategy' = MockStrategy
  /\ prev_sig' = InitialPrevSig
  /\ equity' = NewEquity
  /\ t' = 0
  /\ pc' = "running"
  /\ error' = "none"
  /\ UNCHANGED << cash, position, trade_log, result, calls, cash0, other >>

\* Backtester(VolatilityBreakoutStrategy(...), broker).run(prices) up to the
\* loop, on a ledger created for the run
StartRunBreakout ==
  /\ pc = "idle"
  /\ last = NoCall
  /\ \E c \in Configs, p \in SeqsUpTo(BarValues, MaxBars) :
       LET made == VolatilityBreakoutStrategy(c.lookback, c.k2, c.hold,
                                              c.lag_signal, c.long_only)
           r == signals(made.self, p)
       IN /\ made.raised = "none"
          /\ strategy' = made.self
          /\ prices' = p
          /\ IF r.raised = "none"
               THEN /\ sig' = Normalize(r.out)
                    /\ pc' = "running"
               ELSE /\ sig' = <<>>
                    /\ pc' = "failed"
          /\ error' = r.raised
          /\ last' = [op |-> "run", before |-> TheBroker,
                      emitted |-> { x \in Range(r.out) : Abnormal(x) },
                      built |-> made.raised, out |-> r.out]
  /\ prev_sig' = InitialPrevSig
  /\ equity' = NewEquity
  /\ t' = 0
  /\ UNCHANGED << cash, position, trade_log, result, calls, cash0, other >>

\* one iteration of the loop over prices.items()
Step ==
  /\ pc = "running"
  /\ t < Len(prices)
  /\ LET dt == t + 1
         px == prices[dt]
         cur_sig == sig[dt]
         r == Transition(TheBroker, prev_sig, cur_sig, px)
     IN /\ cash' = r.b.cash
        /\ position' = r.b.position
        /\ trade_log' = r.b.trade_log
        /\ last' = [op |-> "step", dt |-> dt, px |-> px, prev |-> prev_sig,
                    cur |-> cur_sig, sent |-> r.sent, by |-> r.by,
                    before |-> TheBroker]
        /\ IF r.raised = "none"
             THEN /\ equity' = RecordEquity(equity, dt, r.b, px)
                  /\ prev_sig' = cur_sig
                  /\ t' = t + 1
                  /\ UNCHANGED << pc, error >>
             ELSE /\ pc' = "failed"
                  /\ error' = r.raised
                  /\ UNCHANGED << equity, prev_sig, t >>
  /\ UNCHANGED << prices, sig, result, calls, cash0, strategy, other >>

\* the loop is over: run builds and returns its result
Return ==
  /\ pc = "running"
  /\ t = Len(prices)
  /\ result' = [equity |-> equity, signals |-> sig, trades |-> trade_log]
  /\ pc' = "done"
  /\ last' = [op |-> "return", before |-> TheBroker]
  /\ UNCHANGED << cash, position, trade_log, prices, sig, prev_sig, equity,
                  t, error, calls, cash0, strategy, other >>

Next ==
  MarketOrder \/ TotalValue \/ StartRun \/ StartRunBreakout \/ Step \/ Return

Spec == Init /\ [][Next]_vars

\* ------------------------------------------------- two runs side by side
\* Two Backtesters, each built with a Broker of its own, have both entered
\* the loop of run; their iterations are taken in any order.
PairLen == MaxLen - 1
PairCash == { 1, MaxCash }
PairSignals == { 0, Unit }

\* the second Backtester given the first one's ledger
OtherBroker_shared == TheBroker

\* the second Backtester's self.broker
OtherBroker ==
  [cash |-> other.cash, position |-> other.position,
   trade_log |-> other.trade_log]

\* Backtester.run from its first line to its return, nothing else running
RECURSIVE RunFrom(_, _, _, _, _, _)
RunFrom(b, prev, eq, p, s, i) ==
  IF i > Len(p)
    THEN [raised |-> "none", b |-> b,
          result |-> [equity |-> eq, signals |-> s, trades |-> b.trade_log]]
    ELSE LET r == Transition(b, prev, s[i], p[i])
         IN IF r.raised # "none"
              THEN [raised |-> r.raised, b |-> r.b, result |-> "none"]
              ELSE RunFrom(r.b, s[i], RecordEquity(eq, i, r.b, p[i]),
                           p, s, i + 1)

RunAlone(c, p, s) ==
  RunFrom(Broker(c), InitialPrevSig, NewEquity, p, s, 1)

InitPair ==
  /\ cash0 \in PairCash
  /\ cash = Broker(cash0).cash
  /\ position = Broker(cash0).position
  /\ trade_log = Broker(cash0).trade_log
  /\ pc = "running"
  /\ prices \in SeqsUpTo(BarValues, PairLen)
  /\ sig \in [DOMAIN prices -> PairSignals]
  /\ prev_sig = InitialPrevSig
  /\ equity = NewEquity
  /\ t = 0
  /\ result = "none"
  /\ error = "none"
  /\ calls = 0
  /\ strategy = MockStrategy
  /\ last = [op |-> "run", before |-> TheBroker, emitted |-> {}]
  /\ \E c \in PairCash, p \in SeqsUpTo(BarValues, PairLen) :
       \E s \in [DOMAIN p -> PairSignals] :
         other = [cash |-> Broker(c).cash, position |-> Broker(c).position,
                  trade_log |-> Broker(c).trade_log, cash0 |-> c,
                  pc |-> "running", prices |-> p, sig |-> s,
                  prev_sig |-> InitialPrevSig,
                  equity |-> NewEquity, t |-> 0, result |-> "none"]

\* one iteration of the second Backtester's loop
StepOther ==
  /\ other.pc = "running"
  /\ other.t < Len(other.prices)
  /\ LET dt == other.t + 1
         px == other.prices[dt]
         cur_sig == other.sig[dt]
         r == Transition(OtherBroker, other.prev_sig, cur_sig, px)
     IN IF r.raised = "none"
          THEN other' = [other EXCEPT
                           !.cash = r.b.cash,
                           !.position = r.b.position,
                           !.trade_log = r.b.trade_log,
                           !.equity = RecordEquity(@, dt, r.b, px),
                           !.prev_sig = cur_sig,
                           !.t = dt]
          ELSE other' = [other EXCEPT !.pc = "failed"]
  /\ UNCHANGED << cash, position, trade_log, pc, prices, sig, prev_sig,
                  equity, t, result, error, calls, cash0, strategy, last >>

\* the second Backtester's run returns
ReturnOther ==
  /\ other.pc = "running"
  /\ other.t = Len(other.prices)
  /\ other' = [other EXCEPT
                 !.result = [equity |-> other.equity, signals |-> other.sig,
                             trades |-> other.trade_log],
                 !.pc = "done"]
  /\ UNCHANGED << cash, position, trade_log, pc, prices, sig, prev_sig,
                  equity, t, result, error, calls, cash0, strategy, last >>

NextPair == Step \/ Return \/ StepOther \/ ReturnOther

SpecPair == InitPair /\ [][NextPair]_vars

\* ---------------------------------------------------------------- claims
\* the orders the last call passed to Broker.market_order
LastOrders ==
  IF last.op = "market_order"
    THEN <<Order(last.side, last.qty, last.price)>>
    ELSE IF last.op = "step" THEN last.sent ELSE <<>>

\* the spellings of the two sides, letter by letter
IsBuy(side) ==
  /\ Len(side) = 3
  /\ side[1] \in {"b", "B"}
  /\ side[2] \in {"u", "U"}
  /\ side[3] \in {"y", "Y"}

IsSell(side) ==
  /\ Len(side) = 4
  /\ side[1] \in {"s", "S"}
  /\ side[2] \in {"e", "E"}
  /\ side[3] \in {"l", "L"}
  /\ side[4] \in {"l", "L"}

\* C1: market_order called with qty <= 0 or price <= 0, whatever the side,
\* raises ValueError and leaves cash, position and trade_log as they were;
\* this holds of the caller's own orders and of the orders a run sends.
C1_RejectsBadOrder ==
  \A i \in DOMAIN LastOrders :
    (LastOrders[i].qty <= 0 \/ LastOrders[i].price <= 0) =>
      /\ error = "ValueError"
      /\ TheBroker = last.before

\* C1 witness: an order at price 0 with a positive quantity was rejected by
\* a ledger that already holds a trade.
C1_Witness ==
  /\ last.op = "market_order"
  /\ last.qty > 0
  /\ last.price = 0
  /\ error = "ValueError"
  /\ trade_log # <<>>

\* C2: market_order called with qty > 0, price > 0 and a side that is
\* neither buy nor sell in any casing raises ValueError, appends no record
\* and leaves cash and position unchanged.
C2_UnknownSideRejected ==
  ( /\ last.op = "market_order"
    /\ last.qty > 0
    /\ last.price > 0
    /\ ~IsBuy(last.side)
    /\ ~IsSell(last.side) ) =>
      /\ error = "ValueError"
      /\ TheBroker = last.before

\* C3: for qty > 0 and price > 0 a buy in any casing takes qty * price from
\* cash and adds qty to position; a sell in any casing adds qty * price to
\* cash and takes qty from position.
C3_BuySellArithmetic ==
  \A i \in DOMAIN LastOrders :
    LET o == LastOrders[i]
    IN (o.qty > 0 /\ o.price > 0) =>
         /\ IsBuy(o.side) =>
              /\ cash = last.before.cash - o.qty * o.price
              /\ position = last.before.position + o.qty
         /\ IsSell(o.side) =>
              /\ cash = last.before.cash + o.qty * o.price
              /\ position = last.before.position - o.qty

\* C3 witness: an upper-case BUY was followed by a mixed-case Sell that
\* left the position short.
C3_Witness ==
  /\ last.op = "market_order"
  /\ last.side = <<"S", "e", "l", "l">>
  /\ last.qty = MaxQty
  /\ last.price > 0
  /\ Len(trade_log) = 2
  /\ trade_log[1].side = <<"B", "U", "Y">>
  /\ position < 0

\* C4: every order that executes appends one record to the end of trade_log
\* with the order's side, qty and price and the cash and position after it;
\* a call that executes no order leaves the log as it was, so the records
\* already there keep their content and order, and the last record always
\* shows the ledger's current cash and position.
C4_AppendOnly ==
  /\ last.op # "none" =>
       LET done == IF error = "none" THEN LastOrders ELSE <<>>
       IN trade_log =
            last.before.trade_log \o
              [i \in DOMAIN done |->
                 [side |-> done[i].side, qty |-> done[i].qty,
                  price |-> done[i].price, cash |-> cash,
                  position |-> position]]
  /\ trade_log # <<>> =>
       /\ trade_log[Len(trade_log)].cash = cash
       /\ trade_log[Len(trade_log)].position = position

\* C4 witness: a second order executed on a ledger whose log held a
\* different record.
C4_Witness ==
  /\ last.op = "market_order"
  /\ error = "none"
  /\ Len(trade_log) = 2
  /\ trade_log[1] # trade_log[2]
  /\ last.before.trade_log = <<trade_log[1]>>

\* the last call was a loop iteration at an entry / exit transition
AtEntry == last.op = "step" /\ last.prev <= 0 /\ last.cur > 0
AtExit == last.op = "step" /\ last.prev > 0 /\ last.cur <= 0

\* C5: at an exit transition with position > 0 the run sends exactly one
\* sell of the whole position at the step's price and, the price being
\* positive, the sell executes and leaves position 0; with position <= 0
\* it sends no order and the ledger stays as it was.
C5_ExitLiquidation ==
  AtExit =>
    LET pos == last.before.position
        n == Len(trade_log)
    IN IF pos > 0
         THEN /\ last.sent = <<Order(sell, pos, last.px)>>
              /\ last.px > 0 =>
                   /\ error = "none"
                   /\ position = 0
                   /\ n = Len(last.before.trade_log) + 1
                   /\ IsSell(trade_log[n].side)
                   /\ trade_log[n].qty = pos
                   /\ trade_log[n].price = last.px
                   /\ trade_log[n].position = 0
         ELSE /\ last.sent = <<>>
              /\ TheBroker = last.before

\* C5 witness: an exit step sold a position of several units.
C5_Witness ==
  /\ AtExit
  /\ last.before.position >= 2
  /\ last.px > 0
  /\ position = 0

\* C6: at an entry transition at a positive price that the cash pays at
\* least once, the run sends exactly one buy at the step's price for
\* q = floor(cash / price) units, the largest q with q * price <= cash, and
\* it executes: cash falls by q * price and position rises by q.  On cash
\* 1000 and price 30 the buy is of 33 units and leaves cash 10.
C6_EntrySizing ==
  /\ (AtEntry /\ last.px > 0 /\ last.before.cash >= last.px) =>
       /\ Len(last.sent) = 1
       /\ IsBuy(last.sent[1].side)
       /\ last.sent[1].price = last.px
       /\ LET q == last.sent[1].qty
              c0 == last.before.cash
          IN /\ q > 0
             /\ q * last.px <= c0
             /\ c0 < (q + 1) * last.px
             /\ error = "none"
             /\ cash = c0 - q * last.px
             /\ position = last.before.position + q
             /\ Len(trade_log) = Len(last.before.trade_log) + 1
             /\ trade_log[Len(trade_log)].qty = q
  /\ LET r == Entry(Broker(1000), 30)
     IN /\ r.sent = <<Order(buy, 33, 30)>>
        /\ r.b.cash = 10
        /\ r.b.position = 33

\* C6 witness: an entry step bought two units and kept a remainder of cash.
C6_Witness ==
  /\ AtEntry
  /\ Len(last.sent) = 1
  /\ last.sent[1].qty = 2
  /\ cash = 1
  /\ position = 2

\* the price is not 0 and floor(c / px) <= 0
FloorNotPositive(c, px) == (px > 0 /\ c < px) \/ (px < 0 /\ c > px)

\* C7: at an entry transition where floor(cash / price) <= 0 the run sends
\* no order, records no trade, raises nothing and goes on: the step records
\* its equity point and the loop moves to the next observation.
C7_NoBuyIfInsufficientCash ==
  (AtEntry /\ FloorNotPositive(last.before.cash, last.px)) =>
    /\ last.sent = <<>>
    /\ TheBroker = last.before
    /\ error = "none"
    /\ pc = "running"
    /\ t = last.dt
    /\ Len(equity) = last.dt
    /\ prev_sig = last.cur

\* C7 witness: an entry step at a price above the ledger's positive cash.
C7_Witness ==
  /\ AtEntry
  /\ last.before.cash > 0
  /\ last.px > last.before.cash
  /\ trade_log = <<>>
  /\ t = last.dt

\* C8: the equity series and the signals series a run returns have one
\* entry per price observation, in the input's order and with the input's
\* timestamps.
C8_LengthInvariant ==
  pc = "done" =>
    /\ Len(result.equity) = Len(prices)
    /\ Len(result.signals) = Len(prices)
    /\ DOMAIN result.signals = DOMAIN prices
    /\ \A i \in DOMAIN prices : result.equity[i].dt = i

\* C8 witness: a run over the longest input that traded twice returned.
C8_Witness ==
  /\ pc = "done"
  /\ Len(prices) = MaxLen
  /\ Len(result.trades) >= 2
  /\ position = 0

InUnit(x) == 0 <= x /\ x <= Unit

\* C9: every value of the signals series of a run, the returned one
\* included, and every exposure the loop compares (cur_sig, prev_sig) lies
\* in [0, 1], whatever the strategy returned.
C9_Clipping ==
  /\ \A i \in DOMAIN sig : InUnit(sig[i])
  /\ InUnit(prev_sig)
  /\ last.op = "step" => InUnit(last.cur) /\ InUnit(last.prev)
  /\ pc = "done" => \A i \in DOMAIN result.signals : InUnit(result.signals[i])

\* C9 witness: the strategy returned a missing value, a negative value and
\* a value above one, and the run normalised them.
C9_Witness ==
  /\ last.op = "run"
  /\ { NaN, Num(-Unit), Num(2 * Unit) } \subseteq last.emitted
  /\ Len(sig) = MaxLen

\* the ledger rejects an order of the last loop iteration
LedgerRaises ==
  /\ last.op = "step"
  /\ \E i \in DOMAIN last.sent :
       last.sent[i].qty <= 0 \/ last.sent[i].price <= 0

\* C10: when the ledger raises on an order of step t the run fails there
\* with the ledger's error; a failed run has processed no later step, has
\* recorded no equity point for step t, returns no result and keeps the
\* ledger, with the records of the earlier steps, as it was before the
\* order; and nothing of the run happens after the failure.
C10_FailurePropagation ==
  /\ [](LedgerRaises => pc = "failed" /\ error = "ValueError")
  /\ []((pc = "failed" /\ last.op # "run") =>
         /\ last.op = "step"
         /\ error # "none"
         /\ result = "none"
         /\ t = last.dt - 1
         /\ Len(equity) = t
         /\ TheBroker = last.before)
  /\ [][pc = "failed" => pc' = "failed" /\ UNCHANGED vars]_vars

\* C10 witness: the sell of an exit step was rejected after an earlier step
\* of the run had bought.
C10_Witness ==
  /\ pc = "failed"
  /\ LedgerRaises
  /\ IsSell(last.sent[1].side)
  /\ Len(trade_log) = 1
  /\ IsBuy(trade_log[1].side)

\* C11: a run on an empty price series executes no step and returns an
\* empty equity series, an empty signal series and an empty trades table,
\* and the ledger keeps the cash, the position and the empty trade_log it
\* was created with; the run fails only if its strategy refuses the series,
\* which the breakout strategy does with a negative lookback alone.
C11_EmptyInput ==
  (pc # "idle" /\ prices = <<>>) =>
    /\ t = 0
    /\ equity = <<>>
    /\ TheBroker = Broker(cash0)
    /\ pc = "failed" => strategy.kind = "breakout" /\ strategy.lookback < 0
    /\ pc = "done" =>
         result = [equity |-> <<>>, signals |-> <<>>, trades |-> <<>>]

\* C11 witness: a run on the empty series has returned.
C11_Witness ==
  /\ pc = "done"
  /\ prices = <<>>
  /\ last.op = "return"

\* the cash and the position a ledger had before its i-th record was written
CashBefore(i) == IF i = 1 THEN cash0 ELSE trade_log[i - 1].cash
PositionBefore(i) == IF i = 1 THEN 0 ELSE trade_log[i - 1].position

\* C12: a buy of q units at p1 directly followed by a sell of the same q
\* units at p2 leaves the position where it was before the buy and changes
\* the cash by exactly q * (p2 - p1), whatever the ledger held before.
C12_RoundTrip ==
  \A i \in DOMAIN trade_log :
    (/\ i + 1 \in DOMAIN trade_log
     /\ IsBuy(trade_log[i].side)
     /\ IsSell(trade_log[i + 1].side)
     /\ trade_log[i].qty = trade_log[i + 1].qty) =>
      /\ trade_log[i + 1].position = PositionBefore(i)
      /\ trade_log[i + 1].cash - CashBefore(i) =
           trade_log[i].qty * (trade_log[i + 1].price - trade_log[i].price)
      /\ i + 1 = Len(trade_log) =>
           /\ position = PositionBefore(i)
           /\ cash - CashBefore(i) =
                trade_log[i].qty
                  * (trade_log[i + 1].price - trade_log[i].price)

\* C12 witness: the caller bought MaxQty units at 1 with too little cash and
\* sold them at MaxPrice.
C12_Witness ==
  /\ last.op = "market_order"
  /\ Len(trade_log) = 2
  /\ IsBuy(trade_log[1].side)
  /\ IsSell(trade_log[2].side)
  /\ trade_log[1].qty = MaxQty
  /\ trade_log[2].qty = MaxQty
  /\ trade_log[1].price = 1
  /\ trade_log[2].price = MaxPrice
  /\ trade_log[1].cash < 0

\* C13: total_value(p) with p >= 0, p = 0 included, returns cash +
\* position * p, also for a negative position, raises nothing and leaves
\* cash, position and trade_log as they were.
C13_TotalValue ==
  (last.op = "total_value" /\ last.price >= 0) =>
    /\ last.value = cash + position * last.price
    /\ error = "none"
    /\ TheBroker = last.before

\* C13 witness: a ledger short of units was valued at a positive price, and
\* at price 0.
C13_Witness ==
  /\ last.op = "total_value"
  /\ position < 0
  /\ last.price > 0

\* C14: an order with side buy or sell in any letter case, qty > 0 and
\* price > 0 is executed whatever the cash and the position: it raises
\* nothing and appends its record, also when the buy leaves cash < 0 or
\* the sell leaves position < 0.
C14_NoMarginLimit ==
  \A i \in DOMAIN LastOrders :
    (/\ IsBuy(LastOrders[i].side) \/ IsSell(LastOrders[i].side)
     /\ LastOrders[i].qty > 0
     /\ LastOrders[i].price > 0) =>
      /\ error = "none"
      /\ Len(trade_log) = Len(last.before.trade_log) + 1
      /\ trade_log[Len(trade_log)].qty = LastOrders[i].qty
      /\ trade_log[Len(trade_log)].price = LastOrders[i].price
      /\ position # last.before.position

\* C14 witness: a buy the cash did not cover was executed and left the cash
\* negative.
C14_Witness ==
  /\ last.op = "market_order"
  /\ IsBuy(last.side)
  /\ last.before.cash > 0
  /\ last.before.cash < last.qty * last.price
  /\ error = "none"
  /\ cash < 0

\* C20: every step of a run is processed once, in the order of the input;
\* each step that does not fail records one equity point, whether or not it
\* sent an order, after the orders of the step, and the point is
\* total_value of the ledger as the orders left it at the price of the step.
C20_EquityAfterOrders ==
  /\ [](pc # "idle" =>
          /\ Len(equity) = t
          /\ t <= Len(prices)
          /\ \A i \in 1..t : equity[i].dt = i
          /\ pc = "done" => t = Len(prices))
  /\ []((last.op = "step" /\ pc # "failed") =>
          /\ last.dt = t
          /\ last.px = prices[t]
          /\ equity[t].value = total_value(TheBroker, prices[t]))
  /\ [][t' # t =>
          /\ t' = t + 1
          /\ last'.op = "step"
          /\ last'.dt = t'
          /\ SubSeq(equity', 1, t) = equity]_vars

\* C20 witness: a step bought units at a positive price and its equity point
\* counts them, and the step after it sent no order and recorded its point.
C20_Witness ==
  /\ last.op = "step"
  /\ pc = "running"
  /\ last.sent = <<>>
  /\ t >= 2
  /\ position > 0
  /\ prices[t] > 0
  /\ equity[t].value # cash

\* a run of the breakout strategy on prices that are all the same
ConstantPrices ==
  /\ strategy.kind = "breakout"
  /\ strategy.lookback >= 0
  /\ prices # <<>>
  /\ \A j \in DOMAIN prices : prices[j] = prices[1] /\ prices[1] > 0

\* C15: when all prices are the same positive value, the variance under vol
\* is 0 wherever vol is defined, raw is 0 at every position because the
\* comparison with the band is strict, the signals are all 0, the run sends
\* no order and every equity point is the initial cash.
C15_ConstantPrice ==
  ConstantPrices =>
    /\ \A j \in DOMAIN prices :
         VolDefined(j, strategy.lookback) =>
           VarNum(prices, j, strategy.lookback) = 0
    /\ \A j \in DOMAIN prices : Raw(strategy, prices)[j] = 0
    /\ last.op = "run" => \A j \in DOMAIN prices : last.out[j] = Num(0)
    /\ \A j \in DOMAIN prices : sig[j] = 0
    /\ pc # "failed"
    /\ TheBroker = Broker(cash0)
    /\ \A i \in DOMAIN equity : equity[i].value = cash0
    /\ pc = "done" =>
         /\ result.trades = <<>>
         /\ Len(result.equity) = Len(prices)

\* C15 witness: a run on MaxBars equal prices with lookback 2 and k = 1.5,
\* where vol is defined from the fourth price on, has returned.
C15_Witness ==
  /\ ConstantPrices
  /\ pc = "done"
  /\ Len(prices) = MaxBars
  /\ strategy.lookback = 2
  /\ strategy.k2 = 3
  /\ strategy.lag_signal = 0
  /\ VolDefined(MaxBars, strategy.lookback)

\* C16: with prices, lookback, k, hold and long_only the same, the series
\* returned with lag_signal = L > 0 has the length of the prices, is 0 at
\* the first L positions and at position j > L equals the series returned
\* with lag_signal = 0 at position j - L.
C16_LagShift ==
  (/\ last.op = "run"
   /\ strategy.kind = "breakout"
   /\ error = "none"
   /\ strategy.lag_signal > 0) =>
    LET base == signals([strategy EXCEPT !.lag_signal = 0], prices).out
    IN /\ Len(last.out) = Len(prices)
       /\ \A j \in DOMAIN prices :
            last.out[j] = IF j <= strategy.lag_signal
                            THEN Num(0)
                            ELSE base[j - strategy.lag_signal]

\* C16 witness: a series returned with lag_signal = 2 that carries a signal
\* after its first two positions, without hold.
C16_Witness ==
  /\ last.op = "run"
  /\ strategy.kind = "breakout"
  /\ error = "none"
  /\ strategy.lag_signal = 2
  /\ ~strategy.hold
  /\ \E j \in DOMAIN prices : last.out[j] # Num(0)

\* C19: a VolatilityBreakoutStrategy built with a negative lookback, a
\* negative k or a negative lag_signal fails at construction with
\* InvalidConfiguration, so no run is ever started with such a strategy.
C19_RejectsNegativeConfig ==
  (/\ last.op = "run"
   /\ strategy.kind = "breakout"
   /\ \/ strategy.lookback < 0
      \/ strategy.k2 < 0
      \/ strategy.lag_signal < 0) =>
    last.built = "InvalidConfiguration"

\* C18: two runs, each on a ledger of its own, with their steps taken in
\* any order, end each with the ledger and the result the run has when it
\* is the only one running; and a step that changes one ledger leaves the
\* other simulation, its ledger included, as it was.
C18_Independent ==
  /\ [](pc = "done" =>
          /\ result = RunAlone(cash0, prices, sig).result
          /\ TheBroker = RunAlone(cash0, prices, sig).b)
  /\ [](other.pc = "done" =>
          LET alone == RunAlone(other.cash0, other.prices, other.sig)
          IN /\ other.result = alone.result
             /\ other.cash = alone.b.cash
             /\ other.position = alone.b.position
             /\ other.trade_log = alone.b.trade_log)
  /\ [][/\ TheBroker' # TheBroker => other' = other
        /\ other' # other =>
             /\ TheBroker' = TheBroker
             /\ UNCHANGED << equity, prev_sig, t, result >>]_vars

\* C18 witness: both runs are between their first and their last step and
\* each has bought on its own ledger.
C18_Witness ==
  /\ pc = "running"
  /\ other.pc = "running"
  /\ 0 < t /\ t < Len(prices)
  /\ 0 < other.t /\ other.t < Len(other.prices)
  /\ trade_log # <<>>
  /\ other.trade_log # <<>>
  /\ cash0 # other.cash0

\* the state belongs to a run, and to a run of the breakout strategy whose
\* signals() has just returned its series
InRun == strategy.kind # "none"
SignalsReturned ==
  last.op = "run" /\ strategy.kind = "breakout" /\ error = "none"

\* the number of the first n steps at which the exposure s crosses between
\* <= 0 and > 0, the exposure before the first step counted as 0
Crosses(prev, cur) == (prev <= 0 /\ cur > 0) \/ (prev > 0 /\ cur <= 0)
RECURSIVE Crossings(_, _)
Crossings(s, n) ==
  IF n = 0
    THEN 0
    ELSE Crossings(s, n - 1)
           + (IF Crosses(IF n = 1 THEN 0 ELSE s[n - 1], s[n]) THEN 1 ELSE 0)

\* C21: a step whose previous and current exposure are both > 0 or both
\* <= 0 sends no order and leaves the ledger alone, a step sends at most one
\* order and adds at most that many records, and the trades of a run are at
\* most the steps so far at which the clipped exposure crossed 0.
C21_OrdersOnlyAtTransitions ==
  /\ last.op = "step" =>
       /\ Len(last.sent) <= 1
       /\ Len(trade_log) <= Len(last.before.trade_log) + Len(last.sent)
       /\ ~Crosses(last.prev, last.cur) =>
            last.sent = <<>> /\ TheBroker = last.before
  /\ InRun => Len(trade_log) <= Crossings(sig, t)

\* C21 witness: a step with the exposure staying positive, units held and
\* cash left that would pay for one more unit at the step's price.
C21_Witness ==
  /\ last.op = "step"
  /\ last.prev > 0
  /\ last.cur > 0
  /\ position > 0
  /\ last.px > 0
  /\ cash >= last.px
  /\ Crossings(sig, t) = 1

\* the last position at or before j where raw is not 0, or 0 if none
LastSignal(raw, j) ==
  LET hits == { i \in 1 .. j : raw[i] # 0 }
  IN IF hits = {} THEN 0 ELSE CHOOSE i \in hits : \A h \in hits : h <= i

\* C22: with lag_signal = 0 and hold, the value at each position is the
\* most recent non-zero raw value at or before it, 0 if there is none yet:
\* a later raw 0 does not reset it and an opposite non-zero raw replaces
\* it; without hold the value is raw at that position.
C22_HoldSemantics ==
  (SignalsReturned /\ strategy.lag_signal = 0) =>
    LET raw == Raw(strategy, prices)
    IN \A j \in DOMAIN prices :
         last.out[j] =
           IF strategy.hold
             THEN IF LastSignal(raw, j) = 0
                    THEN Num(0)
                    ELSE Num(raw[LastSignal(raw, j)] * Unit)
             ELSE Num(raw[j] * Unit)

\* C22 witness: with hold, a raw 1 is followed by a raw 0, which keeps the
\* 1, and then by a raw -1, which replaces it.
C22_Witness ==
  /\ SignalsReturned
  /\ strategy.lag_signal = 0
  /\ strategy.hold
  /\ \E j \in DOMAIN prices :
       /\ j + 2 \in DOMAIN prices
       /\ Raw(strategy, prices)[j] = 1
       /\ Raw(strategy, prices)[j + 1] = 0
       /\ Raw(strategy, prices)[j + 2] = -1
       /\ last.out[j + 1] = Num(Unit)
       /\ last.out[j + 2] = Num(-Unit)

\* the lag applied by signals(): a lag_signal below 1 shifts nothing
LagApplied == IF strategy.lag_signal > 0 THEN strategy.lag_signal ELSE 0

\* C23: raw is 0 at the first lookback + 1 observations, the returned
\* series is 0 at the first lookback + lag_signal + 1 observations, and a
\* price series of at most lookback + 1 observations gives an all-zero
\* series.
C23_WarmUp ==
  SignalsReturned =>
    /\ \A j \in DOMAIN prices :
         j <= strategy.lookback + 1 => Raw(strategy, prices)[j] = 0
    /\ \A j \in DOMAIN prices :
         j <= strategy.lookback + strategy.lag_signal + 1 =>
           last.out[j] = Num(0)
    /\ Len(prices) <= strategy.lookback + 1 =>
         \A j \in DOMAIN prices : last.out[j] = Num(0)

\* C23 witness: the price rises at the second and third observation, inside
\* the warm-up of lookback 2, and the series has its first signal right
\* after the warm-up and the lag.
C23_Witness ==
  /\ SignalsReturned
  /\ strategy.lookback = 2
  /\ strategy.lag_signal = 1
  /\ Len(prices) = MaxBars
  /\ prices[2] > prices[1]
  /\ prices[4] > prices[3]
  /\ last.out[4] = Num(0)
  /\ last.out[5] = Num(Unit)

\* C24: the series signals() returns has the length of the prices and no
\* missing value: the positions the warm-up, the forward fill and the lag
\* leave undefined are 0.
C24_LengthAndNoNaN ==
  SignalsReturned =>
    /\ Len(last.out) = Len(prices)
    /\ DOMAIN last.out = DOMAIN prices
    /\ \A j \in DOMAIN last.out : ~last.out[j].nan
    /\ \A j \in DOMAIN last.out : j <= LagApplied => last.out[j] = Num(0)
    /\ last.emitted \subseteq { Num(-Unit) }

\* C24 witness: a series of MaxBars values returned with hold and
\* lag_signal = 2, with a signal after the shifted positions.
C24_Witness ==
  /\ SignalsReturned
  /\ Len(prices) = MaxBars
  /\ strategy.hold
  /\ strategy.lag_signal = 2
  /\ last.out[MaxBars] # Num(0)

\* C25: every value of the returned series is -1, 0 or 1, and with
\* long_only it is never -1: a price below the lower band gives 0.
C25_SignalValues ==
  SignalsReturned =>
    /\ \A j \in DOMAIN last.out :
         last.out[j] \in { Num(-Unit), Num(0), Num(Unit) }
    /\ strategy.long_only =>
         /\ \A j \in DOMAIN last.out : last.out[j] # Num(-Unit)
         /\ \A j \in DOMAIN prices : Raw(strategy, prices)[j] # -1

\* C25 witness: with long_only and no hold or lag, a price below the lower
\* band gave 0.
C25_Witness ==
  /\ SignalsReturned
  /\ strategy.long_only
  /\ ~strategy.hold
  /\ strategy.lag_signal = 0
  /\ \E j \in DOMAIN prices :
       BelowDn(strategy, prices, j) /\ last.out[j] = Num(0)

\* C26: a run starts with prev_sig = 0, so its first step sees the previous
\* exposure 0; when the clipped exposure of the first observation is > 0,
\* at a positive price for which floor(cash / price) > 0, that step sends
\* one buy of that quantity, which is executed; and a run on one
\* observation returns exactly one equity point.
C26_FirstStepEntry ==
  /\ (last.op = "run" /\ pc = "running") => prev_sig = 0
  /\ (last.op = "step" /\ last.dt = 1) =>
       /\ last.prev = 0
       /\ (/\ last.cur > 0
           /\ last.px > 0
           /\ FloorDiv(last.before.cash, last.px) > 0) =>
            /\ last.sent =
                 <<Order(buy, FloorDiv(last.before.cash, last.px), last.px)>>
            /\ error = "none"
            /\ pc = "running"
            /\ Len(trade_log) = 1
            /\ position = FloorDiv(last.before.cash, last.px)
  /\ (pc = "done" /\ Len(prices) = 1) => Len(result.equity) = 1

\* C26 witness: a run on a single observation bought at its only step and
\* returned.
C26_Witness ==
  /\ pc = "done"
  /\ Len(prices) = 1
  /\ Len(trade_log) = 1
  /\ IsBuy(trade_log[1].side)
  /\ position = MaxQty

PricesPositive == \A i \in DOMAIN prices : prices[i] > 0

\* C27: in a run on a ledger created with cash >= 0, over prices that are
\* all > 0, cash >= 0 and position >= 0 in every state, and right after a
\* step that bought the cash left is less than the price of that step.
C27_NoShortNoOverdraft ==
  (InRun /\ cash0 >= 0 /\ PricesPositive) =>
    /\ cash >= 0
    /\ position >= 0
    /\ (/\ last.op = "step"
        /\ last.sent # <<>>
        /\ IsBuy(last.sent[1].side)) => cash < last.px

\* C27 witness: the breakout strategy returned -1 for the step just taken,
\* after a step that bought, and the run holds nothing and owes nothing.
C27_Witness ==
  /\ strategy.kind = "breakout"
  /\ last.op = "step"
  /\ cash0 > 0
  /\ Len(trade_log) = 2
  /\ signals(strategy, prices).out[t] = Num(-Unit)
  /\ position = 0
  /\ cash >= 0

\* C28: an executed buy or sell of qty > 0 at price p > 0 leaves
\* total_value(p) as it was before the order; so the equity a step records
\* after its order is the cash plus position * price from before the order,
\* and the first equity point of a run is the cash the ledger was created
\* with.
C28_ValuePreserved ==
  /\ \A i \in DOMAIN LastOrders :
       (/\ IsBuy(LastOrders[i].side) \/ IsSell(LastOrders[i].side)
        /\ LastOrders[i].qty > 0
        /\ LastOrders[i].price > 0) =>
         total_value(TheBroker, LastOrders[i].price) =
           total_value(last.before, LastOrders[i].price)
  /\ (last.op = "step" /\ pc # "failed" /\ last.sent # <<>>) =>
       equity[t].value =
         last.before.cash + last.before.position * last.px
  /\ (InRun /\ equity # <<>>) => equity[1].value = cash0

\* C28 witness: a step sold, at a price other than the price paid, units
\* bought by an earlier step.
C28_Witness ==
  /\ last.op = "step"
  /\ pc = "running"
  /\ last.sent # <<>>
  /\ IsSell(last.sent[1].side)
  /\ Len(trade_log) = 2
  /\ trade_log[1].price # trade_log[2].price
  /\ equity[t].value # cash0

\* C29: the records of a run are a buy, a sell, a buy, ... in turn,
\* starting with a buy, and the position is > 0 exactly when the last
\* record is a buy (when their number is odd).
C29_TradesAlternate ==
  InRun =>
    /\ \A i \in DOMAIN trade_log :
         IF i % 2 = 1
           THEN IsBuy(trade_log[i].side)
           ELSE IsSell(trade_log[i].side)
    /\ position > 0 <=> Len(trade_log) % 2 = 1
    /\ Len(trade_log) % 2 = 0 => position = 0

\* C29 witness: a run has bought, sold and bought again.
C29_Witness ==
  /\ InRun
  /\ Len(trade_log) = 3
  /\ position > 0

\* C30: in a run over prices that are all > 0, every order sent has
\* qty > 0, price > 0 and side "buy" or "sell" and is executed, and the run
\* never fails in its loop; it returns a result with one equity point for
\* each price.  (A run fails before its loop only when its strategy's
\* signals() raises, which takes a negative lookback.)
C30_EngineOrdersValid ==
  (InRun /\ PricesPositive) =>
    /\ last.op = "step" =>
         /\ pc # "failed"
         /\ error = "none"
         /\ \A i \in DOMAIN last.sent :
              /\ last.sent[i].qty > 0
              /\ last.sent[i].price > 0
              /\ last.sent[i].side \in { buy, sell }
    /\ pc = "failed" =>
         /\ last.op = "run"
         /\ strategy.kind = "breakout"
         /\ strategy.lookback < 0
    /\ pc = "done" =>
         /\ Len(result.equity) = Len(prices)
         /\ result.trades = trade_log

\* C30 witness: a run over MaxLen positive prices entered with too little
\* cash for one unit, so holding nothing, left the position at the next
\* step without an order, and returned.
C30_Witness ==
  /\ InRun
  /\ PricesPositive
  /\ pc = "done"
  /\ Len(prices) = MaxLen
  /\ sig[1] > 0
  /\ sig[2] = 0
  /\ cash0 > 0
  /\ cash0 < prices[1]
  /\ trade_log = <<>>

\* over the first n records of a log: the units bought minus the units
\* sold, and the money paid for buys minus the money received for sells
RECURSIVE NetQty(_, _), NetCost(_, _)
NetQty(log, n) ==
  IF n = 0
    THEN 0
    ELSE NetQty(log, n - 1)
           + (IF IsBuy(log[n].side)
                THEN log[n].qty
                ELSE IF IsSell(log[n].side) THEN -log[n].qty ELSE 0)
NetCost(log, n) ==
  IF n = 0
    THEN 0
    ELSE NetCost(log, n - 1)
           + (IF IsBuy(log[n].side)
                THEN log[n].qty * log[n].price
                ELSE IF IsSell(log[n].side)
                  THEN -(log[n].qty * log[n].price)
                  ELSE 0)

\* C31: on a ledger created with cash c0, after any calls of market_order,
\* by a caller or by a run, position is the sum of qty over the buy records
\* minus the sum over the sell records, cash is c0 minus the sum of
\* qty * price over the buy records plus the sum over the sell records, and
\* position is an integer (the quantities being integers, as qty: int
\* declares).
C31_LedgerAccounting ==
  /\ position = NetQty(trade_log, Len(trade_log))
  /\ cash = cash0 - NetCost(trade_log, Len(trade_log))
  /\ position \in Int
  /\ \A i \in DOMAIN trade_log :
       /\ trade_log[i].position = NetQty(trade_log, i)
       /\ trade_log[i].cash = cash0 - NetCost(trade_log, i)

\* C31 witness: a caller bought one unit and sold MaxQty units at another
\* price, on a ledger created with negative cash, and is short.
C31_Witness ==
  /\ last.op = "market_order"
  /\ cash0 < 0
  /\ Len(trade_log) = 2
  /\ IsBuy(trade_log[1].side)
  /\ IsSell(trade_log[2].side)
  /\ trade_log[1].qty = 1
  /\ trade_log[2].qty = MaxQty
  /\ trade_log[1].price # trade_log[2].price
  /\ position < 0

====
